---- MODULE Spec2Model ----
(***************************************************************************)
(* A model of the eraser crate: the wide owning container (ErasedBox), the *)
(* thin owning container (ThinErasedBox) and the non-owning erased         *)
(* pointers (ErasedPtr, ErasedNonNull, ErasedRef, ErasedMut), run against  *)
(* an explicit heap.  Every operation of a handle is one action; the       *)
(* allocator calls, loads, stores and destructor runs it performs are      *)
(* applied to the heap in the order the code performs them and recorded in *)
(* `log`.  Anything the allocator or the memory model forbids (a free of a *)
(* block that is not live, a free with another layout, a read outside a    *)
(* live block, a write through null, an allocator call of size zero) is    *)
(* recorded in `faults`.                                                   *)
(***************************************************************************)
EXTENDS Integers, Sequences, FiniteSets, TLC

VARIABLES
    inp,       \* the erased type T, the shape descriptor and the value: [ty, meta, seed]
    heap,      \* the allocator's blocks, in allocation order
    brk,       \* the allocator's next free address
    hs,        \* the handles
    log,       \* the events of the last operation, in program order
    faults,    \* every memory-contract violation so far
    ret,       \* what the last operation returned to its caller
    panicked   \* the process stopped fatally

vars == <<inp, heap, brk, hs, log, faults, ret, panicked>>

(***************************************************************************)
(* Bounds of the model.                                                    *)
(***************************************************************************)
MaxHandles == 1     \* handles of one run
MaxLen == 2         \* longest sequence ([i32], str) erased
MaxSeed == 2        \* distinct values of a type
HeapBase == 16      \* the first address the allocator hands out

Handles == 1..MaxHandles

(***************************************************************************)
(* Types, shape descriptors and layouts.                                   *)
(***************************************************************************)
\* size_of::<CommonInnerData>() and its alignment: one function pointer.
CommonSize == 8
CommonAlign == 8
\* size and alignment of usize and of DynMetadata, the non-empty descriptors.
WordSize == 8

Uninit == 0 - 1     \* a byte never written
Cont == 0 - 2       \* the 2nd..nth byte of a stored word
FnBase == 900       \* token of a function pointer: FnBase + index of its type
VtBase == 500       \* token of a dispatch table:   VtBase + index of its vtable

\* The types the crate's tests erase, and a 16-aligned one.
Types == <<
    [name |-> "u32",       kind |-> "sized", size |-> 4,  align |-> 4],
    [name |-> "Foo",       kind |-> "sized", size |-> 0,  align |-> 1],
    [name |-> "u128",      kind |-> "sized", size |-> 16, align |-> 16],
    [name |-> "[i32]",     kind |-> "slice", size |-> 4,  align |-> 4],
    [name |-> "str",       kind |-> "slice", size |-> 1,  align |-> 1],
    [name |-> "dyn Debug", kind |-> "dyn",   size |-> 0,  align |-> 1] >>

\* The dispatch tables of the values erased behind `dyn Debug`: f64, Foo, u128.
Vtables == <<
    [size |-> 8,  align |-> 8],
    [size |-> 0,  align |-> 1],
    [size |-> 16, align |-> 16] >>

TypeIds == DOMAIN Types

Max(S) == CHOOSE x \in S : \A y \in S : y <= x

\* Layout::pad_to_align: n rounded up to the next multiple of a.
RoundUp(n, a) == ((n + a - 1) \div a) * a

\* size_of::<T::Metadata>() and align_of::<T::Metadata>()
MetaSize(t) == IF Types[t].kind = "sized" THEN 0 ELSE WordSize
MetaAlign(t) == IF Types[t].kind = "sized" THEN 1 ELSE WordSize

\* The descriptors a value of type t can have.
Metas(t) ==
    CASE Types[t].kind = "sized" -> {0}
      [] Types[t].kind = "slice" -> 0..MaxLen
      [] OTHER                   -> {VtBase + i : i \in DOMAIN Vtables}

\* mem::size_of_val / mem::align_of_val of the T behind (pointer, meta).
SizeOfVal(t, meta) ==
    CASE Types[t].kind = "sized" -> Types[t].size
      [] Types[t].kind = "slice" -> IF meta > 0 THEN Types[t].size * meta ELSE 0
      [] OTHER -> IF (meta - VtBase) \in DOMAIN Vtables
                  THEN Vtables[meta - VtBase].size ELSE 0

AlignOfVal(t, meta) ==
    CASE Types[t].kind = "dyn" -> IF (meta - VtBase) \in DOMAIN Vtables
                                  THEN Vtables[meta - VtBase].align ELSE 1
      [] OTHER -> Types[t].align

\* Layout::for_value(&T)
ValLayout(t, meta) == [size |-> SizeOfVal(t, meta), align |-> AlignOfVal(t, meta)]

\* Layout of the descriptor cell, Box<T::Metadata>.
MetaLayout(t) == [size |-> MetaSize(t), align |-> MetaAlign(t)]

\* The requested layout without pad_to_align.
AllocLayout_NoPad(t, meta) ==
    [size  |-> CommonSize + MetaSize(t) + SizeOfVal(t, meta),
     align |-> Max({CommonAlign, MetaAlign(t), AlignOfVal(t, meta)})]

\* The requested layout aligned for the header only, whatever the value needs.
AllocLayout_HeaderAlign(t, meta) ==
    [size  |-> RoundUp(CommonSize + MetaSize(t) + SizeOfVal(t, meta), CommonAlign),
     align |-> CommonAlign]

\* The layout InnerData::alloc requests: summed sizes, maxed alignment, padded.
AllocLayout(t, meta) ==
    LET min_size == CommonSize + MetaSize(t) + SizeOfVal(t, meta)
        align    == Max({CommonAlign, MetaAlign(t), AlignOfVal(t, meta)})
    IN  [size |-> RoundUp(min_size, align), align |-> align]

\* #[repr(C)] InnerData<T>: common, then meta, then data, each at its aligned offset.
MetaOffset(t) == RoundUp(CommonSize, MetaAlign(t))
\* The `data` field placed right after the descriptor, as in a packed record.
DataOffset_Packed(t, meta) == MetaOffset(t) + MetaSize(t)
DataOffset(t, meta) == RoundUp(MetaOffset(t) + MetaSize(t), AlignOfVal(t, meta))
\* Layout::for_value(&InnerData<T>)
InnerLayout(t, meta) ==
    LET align == Max({CommonAlign, MetaAlign(t), AlignOfVal(t, meta)})
    IN  [size  |-> RoundUp(DataOffset(t, meta) + SizeOfVal(t, meta), align),
         align |-> align]

\* Where the readers (inner_data, drop_impl) look for the descriptor:
\* one CommonInnerData past the start of the record.
MetaReadOffset == CommonSize

\* The bytes of the value `seed` of a type of n bytes.
BytesOf(seed, n) == [i \in 1..n |-> 10 * seed + i]

\* The inputs of a run: a type, a descriptor of it, a value.
Inputs ==
    {[ty |-> t, meta |-> m, seed |-> s] :
        t \in TypeIds, m \in UNION {Metas(u) : u \in TypeIds}, s \in 1..MaxSeed}

ValidInput(i) ==
    /\ i.meta \in Metas(i.ty)
    /\ (SizeOfVal(i.ty, i.meta) = 0 => i.seed = 1)

(***************************************************************************)
(* The machine: heap, log and faults, threaded through an operation.       *)
(***************************************************************************)
Ev(op, addr, size, align) == [op |-> op, addr |-> addr, size |-> size, align |-> align]

Start(h) ==
    [heap |-> heap, brk |-> brk, log |-> <<>>, faults |-> {}, ret |-> 0, rmeta |-> 0,
     panic |-> FALSE, forgot |-> FALSE, h |-> h]

\* The live blocks that hold [a, a+n).
Holding(m, a, n) ==
    {i \in DOMAIN m.heap :
        /\ m.heap[i].live
        /\ m.heap[i].addr <= a
        /\ a + n <= m.heap[i].addr + m.heap[i].size}

Fault(m, f) == [m EXCEPT !.faults = @ \cup {f}]

\* Sequencing: F applied to the machine the step e leaves.
Then(e, F(_)) == CHOOSE r \in {F(x) : x \in {e}} : TRUE

\* alloc::alloc::alloc(layout); `ok` is whether the allocator has memory.
Alloc(m, lay, ok) ==
    LET a  == RoundUp(m.brk, lay.align)
        m1 == [m EXCEPT !.log = Append(@, Ev("alloc", IF ok THEN a ELSE 0, lay.size, lay.align))]
    IN  IF lay.size = 0 THEN [Fault(m1, "alloc_zero") EXCEPT !.ret = 0]
        ELSE IF ~ok THEN [m1 EXCEPT !.ret = 0]
        ELSE [m1 EXCEPT
                !.heap = Append(@, [addr |-> a, size |-> lay.size, align |-> lay.align,
                                    live |-> TRUE, frees |-> 0, owner |-> m.h,
                                    mem |-> [i \in 0..(lay.size - 1) |-> Uninit]]),
                !.brk = a + lay.size,
                !.ret = a]

\* alloc::alloc::dealloc(ptr, layout)
Dealloc(m, a, lay) ==
    LET m1   == [m EXCEPT !.log = Append(@, Ev("dealloc", a, lay.size, lay.align))]
        here == {i \in DOMAIN m.heap : m.heap[i].addr = a}
    IN  IF lay.size = 0 THEN Fault(m1, "dealloc_zero")
        ELSE IF here = {} THEN Fault(m1, "invalid_free")
        ELSE LET i  == CHOOSE j \in here : TRUE
                 b  == m.heap[i]
                 m2 == [m1 EXCEPT !.heap[i].live = FALSE, !.heap[i].frees = @ + 1]
                 m3 == IF b.live THEN m2 ELSE Fault(m2, "double_free")
             IN  IF b.size = lay.size /\ b.align = lay.align
                 THEN m3 ELSE Fault(m3, "layout_mismatch")

\* A load of one word (or of a zero-size descriptor) at address a.
Load(m, a, n) ==
    LET m1 == [m EXCEPT !.log = Append(@, Ev("load", a, n, 1))]
        inb == Holding(m, a, n)
    IN  IF n = 0 THEN [m EXCEPT !.ret = 0]
        ELSE IF inb = {} THEN [Fault(m1, "bad_read") EXCEPT !.ret = Uninit]
        ELSE LET i == CHOOSE j \in inb : TRUE
             IN  [m1 EXCEPT !.ret = m.heap[i].mem[a - m.heap[i].addr]]

\* A store of one word (or of a zero-size descriptor) at address a.
Store(m, a, n, val) ==
    LET m1 == [m EXCEPT !.log = Append(@, Ev("store", a, n, 1))]
        inb == Holding(m, a, n)
    IN  IF n = 0 THEN m
        ELSE IF inb = {} THEN Fault(m1, "bad_write")
        ELSE LET i   == CHOOSE j \in inb : TRUE
                 off == a - m.heap[i].addr
             IN  [m1 EXCEPT !.heap[i].mem =
                    [k \in DOMAIN @ |-> IF k = off THEN val
                                        ELSE IF k > off /\ k < off + n THEN Cont
                                        ELSE @[k]]]

\* The n bytes at address a, as the caller of a reification reads them.
Bytes(m, a, n) ==
    LET inb == Holding(m, a, n)
    IN  IF n = 0 THEN <<>>
        ELSE IF inb = {} THEN [k \in 1..n |-> Uninit]
        ELSE LET i == CHOOSE j \in inb : TRUE
             IN  [k \in 1..n |-> m.heap[i].mem[a - m.heap[i].addr + k - 1]]

\* A read of the n bytes at a through a typed pointer.
ReadBytes(m, a, n) ==
    LET m1 == [m EXCEPT !.log = Append(@, Ev("read", a, n, 1))]
    IN  IF n = 0 THEN m
        ELSE IF Holding(m, a, n) = {} THEN Fault(m1, "bad_read")
        ELSE m1

\* A write of the bytes bs at a through a typed pointer.
WriteBytes(m, a, bs) ==
    LET n  == Len(bs)
        m1 == [m EXCEPT !.log = Append(@, Ev("write", a, n, 1))]
        inb == Holding(m, a, n)
    IN  IF n = 0 THEN m
        ELSE IF a = 0 THEN Fault(m1, "null_write")
        ELSE IF inb = {} THEN Fault(m1, "bad_write")
        ELSE LET i   == CHOOSE j \in inb : TRUE
                 off == a - m.heap[i].addr
             IN  [m1 EXCEPT !.heap[i].mem =
                    [k \in DOMAIN @ |-> IF k >= off /\ k < off + n
                                        THEN bs[k - off + 1] ELSE @[k]]]

\* A copy that stops one byte short.
CopyNonoverlapping_Short(m, src, dst, n) ==
    IF n = 0 THEN m
    ELSE Then(ReadBytes(m, src, n - 1), LAMBDA m1 : WriteBytes(m1, dst, Bytes(m, src, n - 1)))

\* ptr::copy_nonoverlapping(src, dst, n)
CopyNonoverlapping(m, src, dst, n) ==
    Then(ReadBytes(m, src, n), LAMBDA m1 : WriteBytes(m1, dst, Bytes(m, src, n)))

\* ptr::drop_in_place of the T at address a: T's destructor runs on it.
DropInPlace(m, a, t, meta) ==
    LET n  == SizeOfVal(t, meta)
        m1 == [m EXCEPT !.log = Append(@, Ev("dtor", a, n, 1))]
    IN  IF n = 0 \/ Holding(m, a, n) # {} THEN m1 ELSE Fault(m1, "bad_dtor")

\* Box::new(x) for an x of one word or of size zero: a zero-size box does not
\* allocate and points at its alignment (NonNull::dangling).
BoxNewWord(m, lay, val) ==
    IF lay.size = 0 THEN [m EXCEPT !.ret = lay.align]
    ELSE Then(Alloc(m, lay, TRUE), LAMBDA m1 :
            [Store(m1, m1.ret, lay.size, val) EXCEPT !.ret = m1.ret])

\* Box::new(v) / the Box<T> a caller hands over: the source block with v's bytes.
BoxNewVal(m, t, meta, seed) ==
    LET lay == ValLayout(t, meta)
    IN  IF lay.size = 0 THEN [m EXCEPT !.ret = lay.align]
        ELSE Then(Alloc(m, lay, TRUE), LAMBDA m1 :
                [WriteBytes(m1, m1.ret, BytesOf(seed, lay.size)) EXCEPT !.ret = m1.ret])

\* drop(Box<T>) for the box (a, meta): the destructor, then the release of the
\* block unless the layout has size zero.
BoxDropVal(m, a, t, meta) ==
    LET lay == ValLayout(t, meta)
    IN  Then(DropInPlace(m, a, t, meta), LAMBDA m1 :
            IF lay.size # 0 THEN Dealloc(m1, a, lay) ELSE m1)

\* drop(Box<T::Metadata>): no destructor, the cell is released unless zero-size.
BoxDropMeta(m, a, t) ==
    IF MetaSize(t) # 0 THEN Dealloc(m, a, MetaLayout(t)) ELSE m


(***************************************************************************)
(* thin_ebox.rs: the thin owning container.                                *)
(***************************************************************************)
\* InnerData::alloc: the combined record, or a panic when the allocator returns null.
InnerDataAlloc(m, t, val_meta, ok) ==
    Then(Alloc(m, AllocLayout(t, val_meta), ok), LAMBDA m1 :
        IF m1.ret = 0 THEN [m1 EXCEPT !.panic = TRUE,
                                      !.log = Append(@, Ev("panic", 0, 0, 1))]
        ELSE [m1 EXCEPT !.rmeta = val_meta])

\* InnerData::new that releases the source block before copying out of it.
InnerDataNew_FreeFirst(m, t, ptr, meta, ok) ==
    LET b_layout == ValLayout(t, meta)
        b_size   == SizeOfVal(t, meta)
    IN  Then(InnerDataAlloc(m, t, meta, ok), LAMBDA m1 :
        LET new_ptr      == m1.ret
            new_data_ptr == new_ptr + DataOffset(t, m1.rmeta)
        IN  IF m1.panic THEN m1 ELSE
            Then(Store(m1, new_ptr, CommonSize, FnBase + t), LAMBDA m2 :
            Then(Store(m2, new_ptr + MetaOffset(t), MetaSize(t), meta), LAMBDA m3 :
            Then(IF b_layout.size # 0 THEN Dealloc(m3, ptr, b_layout) ELSE m3, LAMBDA m4 :
            Then(CopyNonoverlapping(m4, ptr, new_data_ptr, b_size), LAMBDA m5 :
            [m5 EXCEPT !.ret = new_ptr])))))

\* InnerData::new(val) for the Box (ptr, meta): allocate, write the finalizer and
\* the descriptor, copy the value, release the source block.
InnerDataNew(m, t, ptr, meta, ok) ==
    LET b_layout == ValLayout(t, meta)
        b_size   == SizeOfVal(t, meta)
    IN  Then(InnerDataAlloc(m, t, meta, ok), LAMBDA m1 :
        LET new_ptr      == m1.ret
            new_data_ptr == new_ptr + DataOffset(t, m1.rmeta)
        IN  IF m1.panic THEN m1 ELSE
            Then(Store(m1, new_ptr, CommonSize, FnBase + t), LAMBDA m2 :
            Then(Store(m2, new_ptr + MetaOffset(t), MetaSize(t), meta), LAMBDA m3 :
            Then(CopyNonoverlapping(m3, ptr, new_data_ptr, b_size), LAMBDA m4 :
            Then(IF b_layout.size # 0 THEN Dealloc(m4, ptr, b_layout) ELSE m4, LAMBDA m5 :
            [m5 EXCEPT !.ret = new_ptr])))))

\* inner_data without the `.add(1)`: the descriptor read at the start of the record.
ThinInnerData_NoAdd(m, inner, t) ==
    Then(Load(m, inner, MetaSize(t)), LAMBDA m1 :
        [m1 EXCEPT !.ret = inner, !.rmeta = m1.ret])

\* ThinErasedBox::inner_data: the descriptor read one header past `inner`.
ThinInnerData(m, inner, t) ==
    Then(Load(m, inner + MetaReadOffset, MetaSize(t)), LAMBDA m1 :
        [m1 EXCEPT !.ret = inner, !.rmeta = m1.ret])

\* reify_ptr that takes the value to follow the descriptor without padding.
ThinReifyPtr_Unpadded(m, inner, t) ==
    Then(ThinInnerData(m, inner, t), LAMBDA m1 :
        [m1 EXCEPT !.ret = inner + CommonSize + MetaSize(t)])

\* ThinErasedBox::reify_ptr: the address of the `data` field.
ThinReifyPtr(m, inner, t) ==
    Then(ThinInnerData(m, inner, t), LAMBDA m1 :
        [m1 EXCEPT !.ret = inner + DataOffset(t, m1.rmeta)])

\* ThinErasedBox::reify_box with the zero-size guard left out.
ReifyBoxAlloc_NoGuard(m, layout, ok) == Alloc(m, layout, ok)

\* ThinErasedBox::reify_box, `new_data`: a fresh block, or for a zero-size
\* layout the alignment as a non-null aligned pointer.
ReifyBoxAlloc(m, layout, ok) ==
    IF layout.size # 0 THEN Alloc(m, layout, ok)
    ELSE [m EXCEPT !.ret = layout.align]

\* ThinErasedBox::reify_box up to and including the release of the record.
ThinReifyBoxMove(m, inner, t, ok) ==
    Then(ThinInnerData(m, inner, t), LAMBDA m1 :
    LET meta   == m1.rmeta
        layout == ValLayout(t, meta)
    IN  Then(ReifyBoxAlloc(m1, layout, ok), LAMBDA m2 :
        LET new_data == m2.ret
        IN  Then(IF layout.size # 0
                 THEN CopyNonoverlapping(m2, inner + DataOffset(t, meta), new_data, layout.size)
                 ELSE m2, LAMBDA m3 :
            Then(Load(m3, inner + MetaOffset(t), MetaSize(t)), LAMBDA m4 :
            LET out_meta == m4.ret
            IN  Then(Dealloc(m4, inner, InnerLayout(t, meta)), LAMBDA m5 :
                [m5 EXCEPT !.ret = new_data, !.rmeta = out_meta])))))

\* reify_box without mem::forget(self): self is dropped as it returns.
ThinReifyBox_NoForget(m, inner, t, ok) == ThinReifyBoxMove(m, inner, t, ok)

\* ThinErasedBox::reify_box: the move, then mem::forget(self).
ThinReifyBox(m, inner, t, ok) ==
    [ThinReifyBoxMove(m, inner, t, ok) EXCEPT !.forgot = TRUE]

\* drop_impl that releases the record without running the value's destructor.
ThinDropImpl_NoDtor(m, ptr, t) ==
    Then(Load(m, ptr + MetaReadOffset, MetaSize(t)), LAMBDA m1 :
        Dealloc(m1, ptr, InnerLayout(t, m1.ret)))

\* drop_impl::<T>: rebuild Box<InnerData<T>> and drop it.
ThinDropImpl(m, ptr, t) ==
    Then(Load(m, ptr + MetaReadOffset, MetaSize(t)), LAMBDA m1 :
    LET meta == m1.ret
        lay  == InnerLayout(t, meta)
    IN  Then(DropInPlace(m1, ptr + DataOffset(t, meta), t, meta), LAMBDA m2 :
        IF lay.size # 0 THEN Dealloc(m2, ptr, lay) ELSE m2))

\* ThinErasedBox without its Drop impl: dropping the handle does nothing.
ThinDrop_Missing(m, inner) == m

\* impl Drop for ThinErasedBox: read the finalizer from the header, call it.
ThinDrop(m, inner) ==
    Then(Load(m, inner, CommonSize), LAMBDA m1 :
    LET f == m1.ret
    IN  IF (f - FnBase) \in TypeIds THEN ThinDropImpl(m1, inner, f - FnBase)
        ELSE Fault(m1, "bad_call"))

(***************************************************************************)
(* ebox.rs: the wide owning container.                                     *)
(***************************************************************************)
\* ErasedBox::from_raw: box the descriptor in its own cell.
WideFromRaw(m, data, val_meta, t) ==
    Then(BoxNewWord(m, MetaLayout(t), val_meta), LAMBDA m1 :
        [m1 EXCEPT !.rmeta = m1.ret, !.ret = data])

\* fn reify_ptr(data, meta)
WideReifyPtrFn(m, data, meta, t) ==
    Then(Load(m, meta, MetaSize(t)), LAMBDA m1 :
        [m1 EXCEPT !.ret = data, !.rmeta = m1.ret])

\* fn reify_box that drops the descriptor cell and then reads the descriptor from it.
WideReifyBoxFn_FreeFirst(m, data, meta, t) ==
    Then(BoxDropMeta(m, meta, t), LAMBDA m1 :
        WideReifyPtrFn(m1, data, meta, t))

\* fn reify_box(data, meta): the descriptor is read, its cell dropped, the Box rebuilt.
WideReifyBoxFn(m, data, meta, t) ==
    Then(WideReifyPtrFn(m, data, meta, t), LAMBDA m1 :
    Then(BoxDropMeta(m1, meta, t), LAMBDA m2 :
        [m2 EXCEPT !.ret = m1.ret, !.rmeta = m1.rmeta]))

\* fn drop_erased(data, meta): reify_box, and the Box it returns is dropped.
DropErased(m, data, meta, t) ==
    Then(WideReifyBoxFn(m, data, meta, t), LAMBDA m1 :
        BoxDropVal(m1, m1.ret, t, m1.rmeta))

\* ErasedBox::reify_box without mem::forget(self).
WideReifyBox_NoForget(m, data, meta, t) == WideReifyBoxFn(m, data, meta, t)

\* ErasedBox::reify_box: fn reify_box, then mem::forget(self).
WideReifyBox(m, data, meta, t) ==
    [WideReifyBoxFn(m, data, meta, t) EXCEPT !.forgot = TRUE]

\* impl Drop for ErasedBox: (self.drop)(self.data, self.meta)
WideDrop(m, data, meta, drop) ==
    IF (drop - FnBase) \in TypeIds THEN DropErased(m, data, meta, drop - FnBase)
    ELSE Fault(m, "bad_call")

(***************************************************************************)
(* eptr.rs, eref.rs: the non-owning erased pointers.                       *)
(***************************************************************************)
\* ErasedPtr::new / ErasedNonNull::new: box the descriptor in its own cell.
PtrNew(m, data, val_meta, t) ==
    Then(BoxNewWord(m, MetaLayout(t), val_meta), LAMBDA m1 :
        [m1 EXCEPT !.rmeta = m1.ret, !.ret = data])

\* ErasedPtr::reify_ptr / reify_ptr_mut / ErasedNonNull::reify_ptr
PtrReifyPtr(m, data, meta, t) ==
    Then(Load(m, meta, MetaSize(t)), LAMBDA m1 :
        [m1 EXCEPT !.ret = data, !.rmeta = m1.ret])

\* eptr.rs drop_impl::<T>: the descriptor cell is dropped, nothing else.
PtrDropImpl(m, meta, t) == BoxDropMeta(m, meta, t)

\* impl Drop for ErasedPtr / ErasedNonNull: (self.drop)(self.meta)
PtrDrop(m, meta, drop) ==
    IF (drop - FnBase) \in TypeIds THEN PtrDropImpl(m, meta, drop - FnBase)
    ELSE Fault(m, "bad_call")


(***************************************************************************)
(* The state of a handle and the operations callers apply to it.           *)
(***************************************************************************)
NoBox == [st |-> "none", ptr |-> 0, meta |-> 0]

NoHandle ==
    [kind |-> "none",       \* wide, thin, ptr, nonnull, ref, mut
     st |-> "none",         \* none, live, consumed
     data |-> 0, meta |-> 0, drop |-> 0,   \* the fields of a three-word handle
     inner |-> 0,                          \* the field of a one-word handle
     box |-> NoBox,         \* the Box<T> reify_box returned: none, held, dropped
     cur |-> 0,             \* the value the caller last stored
     nReify |-> 0,          \* reify_box calls on the handle
     nDrop |-> 0,           \* Drop::drop calls on the handle
     nDtor |-> 0]           \* runs of the value's destructor

NoRet == [op |-> "none", h |-> 0, addr |-> 0, meta |-> 0, bytes |-> <<>>]

DtorRuns(m) == Cardinality({i \in DOMAIN m.log : m.log[i].op = "dtor"})

Commit(m) ==
    /\ heap' = m.heap
    /\ brk' = m.brk
    /\ log' = m.log
    /\ faults' = faults \cup m.faults

Returned(op, h, m) ==
    [op |-> op, h |-> h, addr |-> m.ret, meta |-> m.rmeta,
     bytes |-> Bytes(m, m.ret, SizeOfVal(inp.ty, m.rmeta))]

Init ==
    /\ inp \in {i \in Inputs : ValidInput(i)}
    /\ heap = <<>>
    /\ brk = HeapBase
    /\ hs = [h \in Handles |-> NoHandle]
    /\ log = <<>>
    /\ faults = {}
    /\ ret = NoRet
    /\ panicked = FALSE

\* Handle h is the next one to construct (handles are numbered as constructed).
Fresh(h) ==
    /\ ~panicked
    /\ hs[h].st = "none"
    /\ \A g \in Handles : g < h => hs[g].st # "none"

Live(h, k) == ~panicked /\ hs[h].st = "live" /\ hs[h].kind = k

\* ErasedBox::new(val) / ErasedBox::from(Box<T>)
WideNew(h) ==
    /\ Fresh(h)
    /\ \E m1 \in {BoxNewVal(Start(h), inp.ty, inp.meta, inp.seed)} :
       \E m2 \in {WideFromRaw(m1, m1.ret, inp.meta, inp.ty)} :
           /\ Commit(m2)
           /\ hs' = [hs EXCEPT ![h] = [NoHandle EXCEPT
                        !.kind = "wide", !.st = "live", !.data = m2.ret,
                        !.meta = m2.rmeta, !.drop = FnBase + inp.ty, !.cur = inp.seed]]
           /\ ret' = [NoRet EXCEPT !.op = "new", !.h = h]
    /\ UNCHANGED <<inp, panicked>>

\* ThinErasedBox::new(val) / ThinErasedBox::from(Box<T>)
ThinNewWith(h, ok) ==
    /\ Fresh(h)
    /\ \E m1 \in {BoxNewVal(Start(h), inp.ty, inp.meta, inp.seed)} :
       \E m2 \in {InnerDataNew(m1, inp.ty, m1.ret, inp.meta, ok)} :
           /\ Commit(m2)
           /\ panicked' = m2.panic
           /\ hs' = IF m2.panic THEN hs
                    ELSE [hs EXCEPT ![h] = [NoHandle EXCEPT
                        !.kind = "thin", !.st = "live", !.inner = m2.ret, !.cur = inp.seed]]
           /\ ret' = [NoRet EXCEPT !.op = IF m2.panic THEN "panic" ELSE "new", !.h = h]
    /\ UNCHANGED inp

ThinNew(h) == ThinNewWith(h, TRUE)

\* reify_ptr done as reify_box does it: the container's own storage is given up.
OwnedPtr_Taking(m, h) ==
    IF hs[h].kind = "wide"
    THEN WideReifyBoxFn(m, hs[h].data, hs[h].meta, inp.ty)
    ELSE ThinReifyBoxMove(m, hs[h].inner, inp.ty, TRUE)

\* The typed pointer a live owning handle reifies to.
OwnedPtr(m, h) ==
    IF hs[h].kind = "wide"
    THEN WideReifyPtrFn(m, hs[h].data, hs[h].meta, inp.ty)
    ELSE ThinReifyPtr(m, hs[h].inner, inp.ty)

\* reify_ptr of an owning handle.
ReifyPtr(h, k) ==
    /\ Live(h, k)
    /\ \E m \in {OwnedPtr(Start(h), h)} :
           Commit(m) /\ ret' = Returned("reify_ptr", h, m)
    /\ UNCHANGED <<inp, hs, panicked>>

\* reify_ref of an owning handle: reify_ptr().as_ref(), which the caller reads.
ReifyRef(h, k) ==
    /\ Live(h, k)
    /\ \E m1 \in {OwnedPtr(Start(h), h)} :
       \E m2 \in {ReadBytes(m1, m1.ret, SizeOfVal(inp.ty, m1.rmeta))} :
           Commit(m2) /\ ret' = Returned("reify_ref", h, m1)
    /\ UNCHANGED <<inp, hs, panicked>>

\* reify_mut of an owning handle: reify_ptr().as_mut(), through which the
\* caller reads the value and then stores the value w.
ReifyMut(h, k, w) ==
    /\ Live(h, k)
    /\ SizeOfVal(inp.ty, inp.meta) = 0 => w = 1
    /\ \E m1 \in {OwnedPtr(Start(h), h)} :
       \E n \in {SizeOfVal(inp.ty, m1.rmeta)} :
       \E m2 \in {ReadBytes(m1, m1.ret, n)} :
       \E m3 \in {WriteBytes(m2, m1.ret, BytesOf(w, n))} :
           /\ Commit(m3)
           /\ ret' = Returned("reify_mut", h, m1)
           /\ hs' = [hs EXCEPT ![h].cur = w]
    /\ UNCHANGED <<inp, panicked>>

WideReifyPtr(h) == ReifyPtr(h, "wide")
WideReifyRef(h) == ReifyRef(h, "wide")
WideReifyMut(h, w) == ReifyMut(h, "wide", w)
ThinReifyPtrAct(h) == ReifyPtr(h, "thin")
ThinReifyRef(h) == ReifyRef(h, "thin")
ThinReifyMut(h, w) == ReifyMut(h, "thin", w)

\* The handle after an operation that took it by value: consumed.  When the
\* operation did not mem::forget(self), self is dropped as the operation returns.
Consume(h, m, viaReify, viaDrop, b) ==
    [hs EXCEPT ![h].st = "consumed",
               ![h].nReify = @ + viaReify,
               ![h].nDrop = @ + viaDrop,
               ![h].nDtor = @ + DtorRuns(m),
               ![h].box = b]

\* ErasedBox::reify_box
WideReifyBoxAct(h) ==
    /\ Live(h, "wide")
    /\ \E m1 \in {WideReifyBox(Start(h), hs[h].data, hs[h].meta, inp.ty)} :
       \E m2 \in {IF m1.forgot THEN m1 ELSE WideDrop(m1, hs[h].data, hs[h].meta, hs[h].drop)} :
           /\ Commit(m2)
           /\ ret' = Returned("reify_box", h, [m2 EXCEPT !.ret = m1.ret, !.rmeta = m1.rmeta])
           /\ hs' = Consume(h, m2, 1, IF m1.forgot THEN 0 ELSE 1,
                            [st |-> "held", ptr |-> m1.ret, meta |-> m1.rmeta])
    /\ UNCHANGED <<inp, panicked>>

\* ThinErasedBox::reify_box
ThinReifyBoxWith(h, ok) ==
    /\ Live(h, "thin")
    /\ ~ok => SizeOfVal(inp.ty, inp.meta) # 0
    /\ \E m1 \in {ThinReifyBox(Start(h), hs[h].inner, inp.ty, ok)} :
       \E m2 \in {IF m1.forgot THEN m1 ELSE ThinDrop(m1, hs[h].inner)} :
           /\ Commit(m2)
           /\ ret' = Returned("reify_box", h, [m2 EXCEPT !.ret = m1.ret, !.rmeta = m1.rmeta])
           /\ hs' = Consume(h, m2, 1, IF m1.forgot THEN 0 ELSE 1,
                            [st |-> "held", ptr |-> m1.ret, meta |-> m1.rmeta])
    /\ UNCHANGED <<inp, panicked>>

ThinReifyBoxAct(h) == ThinReifyBoxWith(h, TRUE)

\* drop(ErasedBox)
WideDropAct(h) ==
    /\ Live(h, "wide")
    /\ \E m \in {WideDrop(Start(h), hs[h].data, hs[h].meta, hs[h].drop)} :
           /\ Commit(m)
           /\ ret' = [NoRet EXCEPT !.op = "drop", !.h = h]
           /\ hs' = Consume(h, m, 0, 1, NoBox)
    /\ UNCHANGED <<inp, panicked>>

\* drop(ThinErasedBox)
ThinDropAct(h) ==
    /\ Live(h, "thin")
    /\ \E m \in {ThinDrop(Start(h), hs[h].inner)} :
           /\ Commit(m)
           /\ ret' = [NoRet EXCEPT !.op = "drop", !.h = h]
           /\ hs' = Consume(h, m, 0, 1, NoBox)
    /\ UNCHANGED <<inp, panicked>>

\* The caller drops the Box<T> that reify_box returned.
BoxDrop(h) ==
    /\ ~panicked /\ hs[h].box.st = "held"
    /\ \E m \in {BoxDropVal(Start(h), hs[h].box.ptr, inp.ty, hs[h].box.meta)} :
           /\ Commit(m)
           /\ ret' = [NoRet EXCEPT !.op = "box_drop", !.h = h]
           /\ hs' = [hs EXCEPT ![h].box.st = "dropped", ![h].nDtor = @ + DtorRuns(m)]
    /\ UNCHANGED <<inp, panicked>>


\* A non-owning handle of kind k over a value of the caller's (or over null).
NonOwningNew(h, k, null) ==
    /\ Fresh(h)
    /\ \E m0 \in {IF null THEN Start(0) ELSE BoxNewVal(Start(0), inp.ty, inp.meta, inp.seed)} :
       \E data \in {IF null THEN 0 ELSE m0.ret} :
       \E m1 \in {PtrNew([m0 EXCEPT !.h = h], data, inp.meta, inp.ty)} :
           /\ Commit(m1)
           /\ hs' = [hs EXCEPT ![h] = [NoHandle EXCEPT
                        !.kind = k, !.st = "live", !.data = m1.ret,
                        !.meta = m1.rmeta, !.drop = FnBase + inp.ty, !.cur = inp.seed]]
           /\ ret' = [NoRet EXCEPT !.op = "new", !.h = h]
    /\ UNCHANGED <<inp, panicked>>

\* ErasedPtr::new(*const T), null or not
ErasedPtrNew(h, null) == NonOwningNew(h, "ptr", null)
\* ErasedNonNull::new(NonNull<T>)
ErasedNonNullNew(h) == NonOwningNew(h, "nonnull", FALSE)
\* ErasedRef::new(&T)
ErasedRefNew(h) == NonOwningNew(h, "ref", FALSE)
\* ErasedMut::new(&mut T)
ErasedMutNew(h) == NonOwningNew(h, "mut", FALSE)

\* reify_ptr of a non-owning handle; with `deref` the caller reads through the
\* result, and with `write` stores the value w through it.
NonOwningReify(h, k, op, deref, write, w) ==
    /\ Live(h, k)
    /\ SizeOfVal(inp.ty, inp.meta) = 0 => w = 1
    /\ \E m1 \in {PtrReifyPtr(Start(h), hs[h].data, hs[h].meta, inp.ty)} :
       \E n \in {SizeOfVal(inp.ty, m1.rmeta)} :
       \E m2 \in {IF deref /\ hs[h].data # 0 THEN ReadBytes(m1, m1.ret, n) ELSE m1} :
       \E m3 \in {IF write /\ hs[h].data # 0 THEN WriteBytes(m2, m1.ret, BytesOf(w, n)) ELSE m2} :
           /\ Commit(m3)
           /\ ret' = Returned(op, h, m1)
           /\ hs' = IF write /\ hs[h].data # 0 THEN [hs EXCEPT ![h].cur = w] ELSE hs
    /\ UNCHANGED <<inp, panicked>>

\* ErasedPtr::reify_ptr
ErasedPtrReifyPtr(h) == NonOwningReify(h, "ptr", "reify_ptr", FALSE, FALSE, 1)
\* ErasedPtr::reify_ptr_mut, and the caller's store through the pointer
ErasedPtrReifyPtrMut(h, w) == NonOwningReify(h, "ptr", "reify_ptr_mut", TRUE, TRUE, w)
\* ErasedNonNull::reify_ptr
ErasedNonNullReifyPtr(h) == NonOwningReify(h, "nonnull", "reify_ptr", FALSE, FALSE, 1)
\* ErasedRef::reify_ref
ErasedRefReifyRef(h) == NonOwningReify(h, "ref", "reify_ref", TRUE, FALSE, 1)
\* ErasedMut::reify_ref, and the caller's store through the borrow
ErasedMutReifyRef(h, w) == NonOwningReify(h, "mut", "reify_mut", TRUE, TRUE, w)

\* A non-owning drop that runs the owning container's finalizer.
NonOwningDrop_AsOwning(h, k) ==
    /\ Live(h, k)
    /\ \E m \in {WideDrop(Start(h), hs[h].data, hs[h].meta, hs[h].drop)} :
           /\ Commit(m)
           /\ ret' = [NoRet EXCEPT !.op = "drop", !.h = h]
           /\ hs' = Consume(h, m, 0, 1, NoBox)
    /\ UNCHANGED <<inp, panicked>>

\* drop of a non-owning handle of kind k
NonOwningDrop(h, k) ==
    /\ Live(h, k)
    /\ \E m \in {PtrDrop(Start(h), hs[h].meta, hs[h].drop)} :
           /\ Commit(m)
           /\ ret' = [NoRet EXCEPT !.op = "drop", !.h = h]
           /\ hs' = Consume(h, m, 0, 1, NoBox)
    /\ UNCHANGED <<inp, panicked>>

ErasedPtrDrop(h) == NonOwningDrop(h, "ptr")
ErasedNonNullDrop(h) == NonOwningDrop(h, "nonnull")
ErasedRefDrop(h) == NonOwningDrop(h, "ref")
ErasedMutDrop(h) == NonOwningDrop(h, "mut")

Seeds == 1..MaxSeed

Next ==
    \/ \E h \in Handles : WideNew(h)
    \/ \E h \in Handles : WideReifyPtr(h)
    \/ \E h \in Handles : WideReifyRef(h)
    \/ \E h \in Handles, w \in Seeds : WideReifyMut(h, w)
    \/ \E h \in Handles : WideReifyBoxAct(h)
    \/ \E h \in Handles : WideDropAct(h)
    \/ \E h \in Handles : ThinNew(h)
    \/ \E h \in Handles : ThinReifyPtrAct(h)
    \/ \E h \in Handles : ThinReifyRef(h)
    \/ \E h \in Handles, w \in Seeds : ThinReifyMut(h, w)
    \/ \E h \in Handles : ThinReifyBoxAct(h)
    \/ \E h \in Handles : ThinDropAct(h)
    \/ \E h \in Handles : BoxDrop(h)
    \/ \E h \in Handles, null \in BOOLEAN : ErasedPtrNew(h, null)
    \/ \E h \in Handles : ErasedNonNullNew(h)
    \/ \E h \in Handles : ErasedRefNew(h)
    \/ \E h \in Handles : ErasedMutNew(h)
    \/ \E h \in Handles : ErasedPtrReifyPtr(h)
    \/ \E h \in Handles, w \in Seeds : ErasedPtrReifyPtrMut(h, w)
    \/ \E h \in Handles : ErasedNonNullReifyPtr(h)
    \/ \E h \in Handles : ErasedRefReifyRef(h)
    \/ \E h \in Handles, w \in Seeds : ErasedMutReifyRef(h, w)
    \/ \E h \in Handles : ErasedPtrDrop(h)
    \/ \E h \in Handles : ErasedNonNullDrop(h)
    \/ \E h \in Handles : ErasedRefDrop(h)
    \/ \E h \in Handles : ErasedMutDrop(h)

Spec == Init /\ [][Next]_vars

\* The allocator runs out of memory in InnerData::alloc.
ThinNewOOM(h) == ThinNewWith(h, FALSE)
\* The allocator runs out of memory in ThinErasedBox::reify_box.
ThinReifyBoxOOM(h) == ThinReifyBoxWith(h, FALSE)

NextOOM ==
    \/ Next
    \/ \E h \in Handles : ThinNewOOM(h)
    \/ \E h \in Handles : ThinReifyBoxOOM(h)

\* The program with an allocator that may fail.
SpecOOM == Init /\ [][NextOOM]_vars

(***************************************************************************)
(* An ErasedBox (handle 1) and a ThinErasedBox (handle 2) built from the    *)
(* same value and taken through the same operations, one call each per     *)
(* step: the wide container's call first, then the thin container's on the *)
(* heap the first call left.  `ret` holds the two results.                 *)
(***************************************************************************)
\* The machine on which handle h's call starts after the call that left m.
Side(m, h) ==
    [m EXCEPT !.log = <<>>, !.ret = 0, !.rmeta = 0, !.forgot = FALSE, !.h = h]

CommitPair(mw, mt) ==
    /\ heap' = mt.heap
    /\ brk' = mt.brk
    /\ log' = mw.log \o mt.log
    /\ faults' = faults \cup mt.faults

InitPair ==
    /\ inp \in {i \in Inputs : ValidInput(i)}
    /\ heap = <<>>
    /\ brk = HeapBase
    /\ hs = <<NoHandle, NoHandle>>
    /\ log = <<>>
    /\ faults = {}
    /\ ret = [w |-> NoRet, t |-> NoRet]
    /\ panicked = FALSE

PairLive == Live(1, "wide") /\ Live(2, "thin")

\* ErasedBox::new(v) and ThinErasedBox::new(v)
PairNew ==
    /\ ~panicked /\ hs[1].st = "none" /\ hs[2].st = "none"
    /\ \E w1 \in {BoxNewVal(Start(1), inp.ty, inp.meta, inp.seed)} :
       \E w2 \in {WideFromRaw(w1, w1.ret, inp.meta, inp.ty)} :
       \E t1 \in {BoxNewVal(Side(w2, 2), inp.ty, inp.meta, inp.seed)} :
       \E t2 \in {InnerDataNew(t1, inp.ty, t1.ret, inp.meta, TRUE)} :
           /\ CommitPair(w2, t2)
           /\ hs' = <<[NoHandle EXCEPT
                         !.kind = "wide", !.st = "live", !.data = w2.ret,
                         !.meta = w2.rmeta, !.drop = FnBase + inp.ty, !.cur = inp.seed],
                      [NoHandle EXCEPT
                         !.kind = "thin", !.st = "live", !.inner = t2.ret, !.cur = inp.seed]>>
           /\ ret' = [w |-> [NoRet EXCEPT !.op = "new", !.h = 1],
                      t |-> [NoRet EXCEPT !.op = "new", !.h = 2]]
    /\ UNCHANGED <<inp, panicked>>

\* reify_ref on both containers; the caller reads both values.
PairReifyRef ==
    /\ PairLive
    /\ \E w1 \in {OwnedPtr(Start(1), 1)} :
       \E w2 \in {ReadBytes(w1, w1.ret, SizeOfVal(inp.ty, w1.rmeta))} :
       \E t1 \in {OwnedPtr(Side(w2, 2), 2)} :
       \E t2 \in {ReadBytes(t1, t1.ret, SizeOfVal(inp.ty, t1.rmeta))} :
           /\ CommitPair(w2, t2)
           /\ ret' = [w |-> Returned("reify_ref", 1, w1),
                      t |-> Returned("reify_ref", 2, t1)]
    /\ UNCHANGED <<inp, hs, panicked>>

\* reify_mut on both containers; the caller reads both values and stores v in both.
PairReifyMut(v) ==
    /\ PairLive
    /\ SizeOfVal(inp.ty, inp.meta) = 0 => v = 1
    /\ \E w1 \in {OwnedPtr(Start(1), 1)} :
       \E w2 \in {ReadBytes(w1, w1.ret, SizeOfVal(inp.ty, w1.rmeta))} :
       \E w3 \in {WriteBytes(w2, w1.ret, BytesOf(v, SizeOfVal(inp.ty, w1.rmeta)))} :
       \E t1 \in {OwnedPtr(Side(w3, 2), 2)} :
       \E t2 \in {ReadBytes(t1, t1.ret, SizeOfVal(inp.ty, t1.rmeta))} :
       \E t3 \in {WriteBytes(t2, t1.ret, BytesOf(v, SizeOfVal(inp.ty, t1.rmeta)))} :
           /\ CommitPair(w3, t3)
           /\ ret' = [w |-> Returned("reify_mut", 1, w1),
                      t |-> Returned("reify_mut", 2, t1)]
           /\ hs' = [hs EXCEPT ![1].cur = v, ![2].cur = v]
    /\ UNCHANGED <<inp, panicked>>

\* reify_box on both containers.
PairReifyBox ==
    /\ PairLive
    /\ \E w1 \in {WideReifyBox(Start(1), hs[1].data, hs[1].meta, inp.ty)} :
       \E w2 \in {IF w1.forgot THEN w1 ELSE WideDrop(w1, hs[1].data, hs[1].meta, hs[1].drop)} :
       \E t1 \in {ThinReifyBox(Side(w2, 2), hs[2].inner, inp.ty, TRUE)} :
       \E t2 \in {IF t1.forgot THEN t1 ELSE ThinDrop(t1, hs[2].inner)} :
           /\ CommitPair(w2, t2)
           /\ ret' = [w |-> Returned("reify_box", 1, [w2 EXCEPT !.ret = w1.ret, !.rmeta = w1.rmeta]),
                      t |-> Returned("reify_box", 2, [t2 EXCEPT !.ret = t1.ret, !.rmeta = t1.rmeta])]
           /\ hs' = <<Consume(1, w2, 1, IF w1.forgot THEN 0 ELSE 1,
                              [st |-> "held", ptr |-> w1.ret, meta |-> w1.rmeta])[1],
                      Consume(2, t2, 1, IF t1.forgot THEN 0 ELSE 1,
                              [st |-> "held", ptr |-> t1.ret, meta |-> t1.rmeta])[2]>>
    /\ UNCHANGED <<inp, panicked>>

\* The caller drops the two Boxes that reify_box returned.
PairBoxDrop ==
    /\ ~panicked /\ hs[1].box.st = "held" /\ hs[2].box.st = "held"
    /\ \E w1 \in {BoxDropVal(Start(1), hs[1].box.ptr, inp.ty, hs[1].box.meta)} :
       \E t1 \in {BoxDropVal(Side(w1, 2), hs[2].box.ptr, inp.ty, hs[2].box.meta)} :
           /\ CommitPair(w1, t1)
           /\ ret' = [w |-> [NoRet EXCEPT !.op = "box_drop", !.h = 1],
                      t |-> [NoRet EXCEPT !.op = "box_drop", !.h = 2]]
           /\ hs' = [hs EXCEPT ![1].box.st = "dropped", ![1].nDtor = @ + DtorRuns(w1),
                               ![2].box.st = "dropped", ![2].nDtor = @ + DtorRuns(t1)]
    /\ UNCHANGED <<inp, panicked>>

\* Both containers are dropped.
PairDrop ==
    /\ PairLive
    /\ \E w1 \in {WideDrop(Start(1), hs[1].data, hs[1].meta, hs[1].drop)} :
       \E t1 \in {ThinDrop(Side(w1, 2), hs[2].inner)} :
           /\ CommitPair(w1, t1)
           /\ ret' = [w |-> [NoRet EXCEPT !.op = "drop", !.h = 1],
                      t |-> [NoRet EXCEPT !.op = "drop", !.h = 2]]
           /\ hs' = <<Consume(1, w1, 0, 1, NoBox)[1], Consume(2, t1, 0, 1, NoBox)[2]>>
    /\ UNCHANGED <<inp, panicked>>

NextPair ==
    \/ PairNew
    \/ PairReifyRef
    \/ \E v \in Seeds : PairReifyMut(v)
    \/ PairReifyBox
    \/ PairBoxDrop
    \/ PairDrop

\* The two containers side by side.
SpecPair == InitPair /\ [][NextPair]_vars


(***************************************************************************)
(* Properties.                                                             *)
(***************************************************************************)
Owning(h) == hs[h].kind \in {"wide", "thin"}
NonOwning(h) == hs[h].kind \in {"ptr", "nonnull", "ref", "mut"}

\* The blocks allocated by the operations of handle h.
Owned(h) == {i \in DOMAIN heap : heap[i].owner = h}
FreedOnce(i) == ~heap[i].live /\ heap[i].frees = 1
Untouched(i) == heap[i].live /\ heap[i].frees = 0

ValSize == SizeOfVal(inp.ty, inp.meta)
ValAlign == AlignOfVal(inp.ty, inp.meta)
HeapBytes(a, n) == Bytes([heap |-> heap], a, n)

ReleaseFaults ==
    {"double_free", "invalid_free", "layout_mismatch", "bad_dtor", "bad_read", "bad_write"}

Reifications == {"reify_ptr", "reify_ref", "reify_mut", "reify_box"}

NoFaults == faults = {}

\* C1: an owning handle (wide or thin) that was constructed and dropped, and
\* never reified to an owned Box, has run the value's destructor exactly once
\* and has freed every block it allocated exactly once: none is still live and
\* none was freed twice.  The blocks are the value block and the descriptor
\* cell (wide), the source block and the combined record (thin).
C1_TeardownReleasesOnce ==
    \A h \in Handles :
        (Owning(h) /\ hs[h].st = "consumed" /\ hs[h].nReify = 0) =>
            /\ hs[h].nDrop = 1
            /\ hs[h].nDtor = 1
            /\ \A i \in Owned(h) : FreedOnce(i)
            /\ Cardinality(Owned(h)) =
                  (IF ValSize > 0 THEN 1 ELSE 0)
                  + (IF hs[h].kind = "thin" THEN 1
                     ELSE IF MetaSize(inp.ty) > 0 THEN 1 ELSE 0)
            /\ faults \cap ReleaseFaults = {}

C1_Witness ==
    \E h \in Handles :
        /\ Owning(h) /\ hs[h].st = "consumed" /\ hs[h].nReify = 0
        /\ hs[h].nDtor = 1
        /\ Cardinality(Owned(h)) = 2
        /\ \A i \in Owned(h) : FreedOnce(i)

\* C2: over construct, reify_box, drop of the returned Box, the value's
\* destructor runs zero times during construction and reify_box and once when
\* the Box is dropped, the handle's own Drop never runs, and every block
\* allocated during the lifecycle is freed exactly once.
C2_ReifyThenDropReleasesOnce ==
    \A h \in Handles :
        Owning(h) =>
            /\ (hs[h].st = "live" => hs[h].nDtor = 0)
            /\ (hs[h].box.st = "held" => hs[h].nDtor = 0 /\ hs[h].nDrop = 0)
            /\ (hs[h].box.st = "dropped" =>
                    /\ hs[h].nDtor = 1
                    /\ hs[h].nDrop = 0
                    /\ \A i \in Owned(h) : FreedOnce(i)
                    /\ faults \cap ReleaseFaults = {})

C2_Witness ==
    \E h \in Handles :
        /\ Owning(h) /\ hs[h].box.st = "dropped"
        /\ hs[h].nReify = 1 /\ hs[h].nDtor = 1
        /\ Cardinality(Owned(h)) >= 2
        /\ \A i \in Owned(h) : FreedOnce(i)

\* C3: an owning handle starts live and is consumed by exactly one of
\* reify_box and Drop::drop, once; a consumed handle stays consumed and no
\* operation of the handle is applied to it again (only the Box it returned is
\* still dropped); Drop::drop never runs on a handle reify_box has consumed.
C3_StateMachine ==
    [][\A h \in Handles :
          /\ (hs[h].st = "none" /\ hs'[h].st # "none" /\ hs'[h].kind \in {"wide", "thin"} =>
                hs'[h].st = "live" /\ hs'[h].nReify = 0 /\ hs'[h].nDrop = 0)
          /\ (Owning(h) /\ hs[h].st = "live" /\ hs'[h].st # "live" =>
                /\ hs'[h].st = "consumed"
                /\ hs'[h].nReify + hs'[h].nDrop = 1)
          /\ (Owning(h) /\ hs[h].st = "live" /\ hs'[h].st = "live" =>
                hs'[h].nReify = 0 /\ hs'[h].nDrop = 0)
          /\ (Owning(h) /\ hs[h].st = "consumed" =>
                /\ hs'[h].st = "consumed"
                /\ hs'[h].nReify = hs[h].nReify
                /\ hs'[h].nDrop = hs[h].nDrop
                /\ (ret'.h = h => ret'.op = "box_drop" \/ ret' = ret))]_vars

C3_Witness ==
    \E h \in Handles :
        /\ hs[h].kind = "thin" /\ hs[h].st = "consumed"
        /\ hs[h].nReify = 1 /\ hs[h].nDrop = 0
        /\ hs[h].box.st = "dropped"

\* C4: the Box that reify_box returns holds the value that was erased (or
\* last stored): the same bytes under the same shape descriptor, at a non-null
\* address aligned for the value.
C4_RoundTrip ==
    \A h \in Handles :
        (Owning(h) /\ hs[h].box.st = "held") =>
            /\ hs[h].box.meta = inp.meta
            /\ HeapBytes(hs[h].box.ptr, ValSize) = BytesOf(hs[h].cur, ValSize)
            /\ hs[h].box.ptr # 0
            /\ hs[h].box.ptr % ValAlign = 0

C4_Witness ==
    \E h \in Handles :
        /\ hs[h].kind = "thin" /\ hs[h].box.st = "held"
        /\ Types[inp.ty].kind = "dyn" /\ ValSize > 0
        /\ HeapBytes(hs[h].box.ptr, ValSize) = BytesOf(inp.seed, ValSize)

\* C5: the shape descriptor every reader of a live owning handle decodes
\* (reify_ptr, reify_ref, reify_mut, reify_box, the finalizer) is the one
\* captured at construction; the thin record's `meta` field lies where the
\* readers look, one header past the start, for every descriptor kind.
C5_DescriptorFidelity ==
    /\ \A t \in TypeIds : MetaOffset(t) = MetaReadOffset
    /\ \A h \in Handles :
          (Owning(h) /\ hs[h].st = "live") => OwnedPtr(Start(h), h).rmeta = inp.meta
    /\ (ret.h \in Handles /\ ret.op \in Reifications) =>
          (Owning(ret.h) => ret.meta = inp.meta /\ Len(ret.bytes) = ValSize)
    /\ (ret.h \in Handles /\ ret.op = "drop") =>
          (Owning(ret.h) =>
              /\ \A i \in DOMAIN log : log[i].op = "dtor" => log[i].size = ValSize
              /\ "layout_mismatch" \notin faults)

C5_Witness ==
    \E h \in Handles :
        /\ hs[h].kind = "thin" /\ hs[h].st = "live"
        /\ Types[inp.ty].kind = "slice" /\ inp.meta > 1
        /\ ret.h = h /\ ret.op = "reify_ref" /\ ret.meta = inp.meta

\* C6: every reification of a live owning handle reads the value the caller
\* last stored through it: after a store through reify_mut, reify_ref,
\* reify_mut, reify_ptr and the Box of reify_box all show the stored value.
C6_MutationVisibility ==
    [][\A h \in Handles :
          (Owning(h) /\ hs[h].st = "live" /\ ret'.h = h /\ ret'.op \in Reifications
              /\ ret' # ret) =>
                ret'.bytes = BytesOf(hs[h].cur, ValSize)]_vars

C6_Witness ==
    \E h \in Handles :
        /\ Owning(h) /\ hs[h].cur # inp.seed /\ ValSize > 0
        /\ ret.h = h /\ ret.op = "reify_box"
        /\ ret.bytes = BytesOf(hs[h].cur, ValSize)

\* C7: a non-owning handle never deallocates, destructs or writes the value
\* it refers to (only the caller's own stores change it); its drop frees the
\* handle's own descriptor cell, once, and nothing else.
C7_NonOwningNeverFrees ==
    /\ \A i \in DOMAIN heap : heap[i].owner = 0 => Untouched(i)
    /\ \A h \in Handles :
          NonOwning(h) =>
              /\ hs[h].nDtor = 0
              /\ (hs[h].data # 0 =>
                    HeapBytes(hs[h].data, ValSize) = BytesOf(hs[h].cur, ValSize))
              /\ Cardinality(Owned(h)) = (IF MetaSize(inp.ty) > 0 THEN 1 ELSE 0)
              /\ (hs[h].st = "live" => \A i \in Owned(h) : Untouched(i))
              /\ (hs[h].st = "consumed" =>
                    hs[h].nDrop = 1 /\ \A i \in Owned(h) : FreedOnce(i))
              /\ faults \cap ReleaseFaults = {}

C7_Witness ==
    \E h \in Handles :
        /\ NonOwning(h) /\ hs[h].st = "consumed"
        /\ Cardinality(Owned(h)) = 1
        /\ \A i \in Owned(h) : FreedOnce(i)
        /\ \E i \in DOMAIN heap :
              heap[i].owner = 0 /\ heap[i].addr = hs[h].data /\ Untouched(i)

\* C8: when the allocator returns null in thin construction or in thin
\* reify_box the operation stops fatally: nothing is copied to the null
\* pointer and no handle or Box is built from it.
C8_AllocFailureFatal ==
    /\ "null_write" \notin faults
    /\ \A h \in Handles : hs[h].box.st # "none" => hs[h].box.ptr # 0
    /\ (\E i \in DOMAIN log : log[i].op = "alloc" /\ log[i].addr = 0 /\ log[i].size > 0)
          => panicked

\* C9: the block a thin construction requests has the largest of the header's,
\* the descriptor's and the value's alignments, and the least multiple of that
\* alignment that holds header size + descriptor size + the value's runtime size.
C9_CombinedLayout ==
    \A h \in Handles :
        (hs[h].kind = "thin" /\ hs[h].st = "live") =>
            \E i \in DOMAIN heap :
                LET a   == Max({CommonAlign, MetaAlign(inp.ty), ValAlign})
                    sum == CommonSize + MetaSize(inp.ty) + ValSize
                IN  /\ heap[i].addr = hs[h].inner
                    /\ heap[i].align = a
                    /\ heap[i].size % a = 0
                    /\ heap[i].size >= sum
                    /\ heap[i].size - a < sum

C9_Witness ==
    \E h \in Handles :
        /\ hs[h].kind = "thin" /\ hs[h].st = "live"
        /\ (CommonSize + MetaSize(inp.ty) + ValSize) % CommonAlign # 0
        /\ \E i \in DOMAIN heap :
              heap[i].addr = hs[h].inner
              /\ heap[i].size > CommonSize + MetaSize(inp.ty) + ValSize

\* C10: no operation of the thin container calls the allocator with size
\* zero; the combined record has nonzero size; for a zero-size value the
\* construction deallocates no source block and reify_box allocates nothing and
\* returns a non-null pointer that is a multiple of the value's alignment.
C10_ZeroSizeGuard ==
    /\ faults \cap {"alloc_zero", "dealloc_zero"} = {}
    /\ \A i \in DOMAIN log : log[i].op \in {"alloc", "dealloc"} => log[i].size > 0
    /\ \A h \in Handles :
          hs[h].kind = "thin" =>
              /\ (hs[h].st = "live" =>
                    \E i \in DOMAIN heap :
                        heap[i].addr = hs[h].inner /\ heap[i].live /\ heap[i].size > 0)
              /\ (ValSize = 0 /\ ret.h = h /\ ret.op = "new" =>
                    \A i \in DOMAIN log : log[i].op # "dealloc")
              /\ (ValSize = 0 /\ ret.h = h /\ ret.op = "reify_box" =>
                    /\ \A i \in DOMAIN log : log[i].op # "alloc"
                    /\ ret.addr # 0
                    /\ ret.addr % ValAlign = 0)

C10_Witness ==
    \E h \in Handles :
        /\ hs[h].kind = "thin" /\ ValSize = 0 /\ ValAlign > 1
        /\ ret.h = h /\ ret.op = "reify_box"
        /\ ret.addr = ValAlign
        /\ hs[h].box.st = "held"

\* C11: while a thin handle is live the address reify_ptr returns is non-null,
\* a multiple of the value's alignment, and the value's bytes
\* [address, address + size) lie inside the combined record, which is still
\* allocated, for every value size (zero too), alignment and descriptor kind.
C11_ThinPtrValid ==
    \A h \in Handles :
        (hs[h].kind = "thin" /\ hs[h].st = "live") =>
            LET p == ThinReifyPtr(Start(h), hs[h].inner, inp.ty).ret
            IN  /\ p # 0
                /\ p % ValAlign = 0
                /\ \E i \in DOMAIN heap :
                      /\ heap[i].live
                      /\ heap[i].addr = hs[h].inner
                      /\ heap[i].addr < p
                      /\ p + ValSize <= heap[i].addr + heap[i].size
                /\ (ret.h = h /\ ret.op = "reify_ptr" => ret.addr = p)

C11_Witness ==
    \E h \in Handles :
        /\ hs[h].kind = "thin" /\ hs[h].st = "live"
        /\ ret.h = h /\ ret.op = "reify_ptr"
        /\ ValAlign > CommonAlign
        /\ ret.addr > hs[h].inner + CommonSize + MetaSize(inp.ty)
        /\ ret.addr % ValAlign = 0

\* The deallocations of the last operation.
Deallocs == {k \in DOMAIN log : log[k].op = "dealloc"}

\* C12: every block is deallocated with exactly the size and alignment it was
\* allocated with; the combined record, allocated with the padded sum of sizes
\* at the maximum alignment, is deallocated by the finalizer and by reify_box
\* with the record type's own layout, and the two layouts are equal.
C12_LayoutsAgree ==
    /\ "layout_mismatch" \notin faults
    /\ \A k \in Deallocs :
          \E i \in DOMAIN heap :
              /\ heap[i].addr = log[k].addr
              /\ heap[i].size = log[k].size
              /\ heap[i].align = log[k].align
    /\ AllocLayout(inp.ty, inp.meta) = InnerLayout(inp.ty, inp.meta)
    /\ \A h \in Handles :
          (hs[h].kind = "thin" /\ hs[h].st = "consumed") =>
              \E i \in DOMAIN heap :
                  /\ heap[i].addr = hs[h].inner
                  /\ ~heap[i].live
                  /\ [size |-> heap[i].size, align |-> heap[i].align]
                         = InnerLayout(inp.ty, inp.meta)

C12_Witness ==
    /\ ret.op = "reify_box"
    /\ hs[ret.h].kind = "thin"
    /\ AllocLayout(inp.ty, inp.meta) # AllocLayout_NoPad(inp.ty, inp.meta)
    /\ \E k \in Deallocs :
          /\ log[k].addr = hs[ret.h].inner
          /\ log[k].size = AllocLayout(inp.ty, inp.meta).size
          /\ log[k].align = AllocLayout(inp.ty, inp.meta).align

\* The last operation relocated a value into or out of a thin container.
ThinRelocation ==
    /\ ret.op \in {"new", "reify_box"}
    /\ hs[ret.h].kind = "thin"

\* The block the last relocation moved the value out of: the caller's Box<T>
\* for a construction (the first block the operation's log allocates), the
\* combined record for reify_box.  Zero when there is no such block.
SourceAddr ==
    IF ret.op = "reify_box" THEN hs[ret.h].inner
    ELSE IF ValSize = 0 THEN 0 ELSE log[1].addr

SourceSize ==
    IF ret.op = "reify_box" THEN InnerLayout(inp.ty, inp.meta).size ELSE ValSize

\* The address of the value inside the source block.
SourceData ==
    IF ret.op = "reify_box" THEN SourceAddr + DataOffset(inp.ty, inp.meta) ELSE SourceAddr

InSource(e) == SourceAddr <= e.addr /\ e.addr + e.size <= SourceAddr + SourceSize

SourceReads == {k \in DOMAIN log : log[k].op \in {"read", "load"} /\ InSource(log[k])}

SourceFrees == {k \in Deallocs : log[k].addr = SourceAddr}

\* C13: a relocation in the thin container (construction, reify_box) reads all
\* of the value's bytes and the descriptor out of the source allocation before
\* it deallocates it, deallocates it exactly once, never reads it afterwards,
\* and does not run the value's destructor.
C13_CopyBeforeFree ==
    (ThinRelocation /\ SourceAddr # 0) =>
        /\ Cardinality(SourceFrees) = 1
        /\ \A i \in DOMAIN heap :
              heap[i].addr = SourceAddr => ~heap[i].live /\ heap[i].frees = 1
        /\ \A r \in SourceReads : \A f \in SourceFrees : r < f
        /\ ValSize # 0 =>
              \E r \in SourceReads : log[r] = Ev("read", SourceData, ValSize, 1)
        /\ (ret.op = "reify_box" /\ MetaSize(inp.ty) # 0) =>
              \E r \in SourceReads :
                  log[r] = Ev("load", SourceAddr + MetaOffset(inp.ty), MetaSize(inp.ty), 1)
        /\ \A k \in DOMAIN log : log[k].op # "dtor"
        /\ "bad_read" \notin faults
        /\ ret.op = "reify_box" => ret.bytes = BytesOf(hs[ret.h].cur, ValSize)

C13_Witness ==
    /\ ThinRelocation
    /\ ret.op = "new"
    /\ ValSize # 0
    /\ \E r \in SourceReads : \E f \in SourceFrees : r < f

\* The last operation tore a wide container down or reified it to a Box.
WideTeardown ==
    /\ ret.op \in {"drop", "reify_box"}
    /\ hs[ret.h].kind = "wide"

CellLoads == {k \in DOMAIN log : log[k].op = "load" /\ log[k].addr = hs[ret.h].meta}

CellFrees == {k \in Deallocs : log[k].addr = hs[ret.h].meta}

\* C14: on drop and on reify_box of an ErasedBox the descriptor is read from
\* its cell before the cell is freed, the cell is freed exactly once and never
\* read afterwards, and the value is destroyed (destructor, then release of
\* its block) or returned with the descriptor that was read.
C14_CellReadBeforeFree ==
    WideTeardown =>
        /\ MetaSize(inp.ty) # 0 =>
              /\ CellLoads # {}
              /\ Cardinality(CellFrees) = 1
              /\ \A r \in CellLoads : \A f \in CellFrees : r < f
              /\ \A i \in DOMAIN heap :
                    heap[i].addr = hs[ret.h].meta => ~heap[i].live /\ heap[i].frees = 1
        /\ "bad_read" \notin faults
        /\ ret.op = "reify_box" =>
              /\ ret.meta = inp.meta
              /\ hs[ret.h].box.meta = inp.meta
        /\ ret.op = "drop" =>
              /\ \E d \in DOMAIN log :
                    /\ log[d] = Ev("dtor", hs[ret.h].data, ValSize, 1)
                    /\ \A f \in CellFrees : f < d
              /\ ValSize # 0 =>
                    \E d \in Deallocs :
                        log[d] = Ev("dealloc", hs[ret.h].data, ValSize, ValAlign)

C14_Witness ==
    /\ WideTeardown
    /\ ret.op = "drop"
    /\ MetaSize(inp.ty) # 0
    /\ inp.meta > 1
    /\ \E r \in CellLoads : \E f \in CellFrees : r < f
    /\ \E d \in DOMAIN log : log[d].op = "dtor" /\ log[d].size = ValSize

NonConsuming == {"reify_ptr", "reify_ref", "reify_mut"}

\* Where the value of the live owning handle h is.
ValueAddr(h) ==
    IF hs[h].kind = "wide" THEN hs[h].data
    ELSE hs[h].inner + DataOffset(inp.ty, inp.meta)

\* The words of block i that hold a handle's finalizer and descriptor: all of
\* a descriptor cell, the header and descriptor fields of a combined record.
Bookkeeping(h, i) ==
    IF hs[h].kind = "wide"
    THEN IF heap[i].addr = hs[h].meta THEN DOMAIN heap[i].mem ELSE {}
    ELSE IF heap[i].addr = hs[h].inner
         THEN {k \in DOMAIN heap[i].mem : k < DataOffset(inp.ty, inp.meta)} ELSE {}

\* C15: reify_ptr, reify_ref and reify_mut on a live owning handle (wide or
\* thin) allocate nothing, free nothing, do not run the value's destructor and
\* leave the handle live with the same data pointer, descriptor and finalizer;
\* every such call returns the same address.
C15_ReifyKeepsOwnership ==
    [][\A h \in Handles :
          (Owning(h) /\ hs[h].st = "live" /\ ret'.h = h /\ ret'.op \in NonConsuming) =>
              /\ \A k \in DOMAIN log' : log'[k].op \notin {"alloc", "dealloc", "dtor"}
              /\ brk' = brk
              /\ DOMAIN heap' = DOMAIN heap
              /\ \A i \in DOMAIN heap :
                    /\ [heap'[i] EXCEPT !.mem = <<>>] = [heap[i] EXCEPT !.mem = <<>>]
                    /\ \A k \in Bookkeeping(h, i) : heap'[i].mem[k] = heap[i].mem[k]
                    /\ ret'.op # "reify_mut" => heap'[i] = heap[i]
              /\ hs'[h] = [hs[h] EXCEPT !.cur = hs'[h].cur]
              /\ ret'.addr = ValueAddr(h)
              /\ (ret.h = h /\ ret.op \in NonConsuming) => ret'.addr = ret.addr]_vars

C15_Witness ==
    \E h \in Handles :
        /\ Owning(h) /\ hs[h].st = "live"
        /\ ret.h = h /\ ret.op = "reify_ptr"
        /\ hs[h].cur # inp.seed
        /\ ret.addr = ValueAddr(h)
        /\ \A i \in Owned(h) : heap[i].live

\* Both containers are gone: consumed, and the Box of reify_box, if any, dropped.
PairEnded ==
    \A h \in {1, 2} : hs[h].st = "consumed" /\ hs[h].box.st # "held"

\* C16: an ErasedBox and a ThinErasedBox built from the same value and taken
\* through the same operations return equal values (bytes and descriptor) from
\* every reification, have run the value's destructor the same number of times
\* after every step, and both end with no allocation still live.
C16_ThinRefinesWide ==
    /\ ret.w.op = ret.t.op
    /\ ret.w.bytes = ret.t.bytes
    /\ ret.w.meta = ret.t.meta
    /\ ret.w.op \in {"reify_ref", "reify_box"} => ret.t.bytes = BytesOf(hs[2].cur, ValSize)
    /\ hs[1].nDtor = hs[2].nDtor
    /\ hs[1].st = hs[2].st
    /\ hs[1].box.st = hs[2].box.st
    /\ PairEnded =>
          /\ hs[1].nDtor = 1
          /\ \A i \in DOMAIN heap : FreedOnce(i)
          /\ Owned(1) # {} \/ ValSize = 0
          /\ Owned(2) # {}

C16_Witness ==
    /\ PairEnded
    /\ ret.w.op = "box_drop"
    /\ ValSize > 0
    /\ hs[1].cur # inp.seed
    /\ hs[2].nDtor = 1
    /\ \A i \in DOMAIN heap : ~heap[i].live

====
